---- MODULE Spec2Model ----
(***************************************************************************)
(* Model of pyuvm's sequence / sequencer / seq_item_export hand-off        *)
(* (src/pyuvm/s14_15_python_sequences.py).                                 *)
(*                                                                         *)
(* Tasks are cooperative coroutines: a task runs atomically from one       *)
(* suspension point (an await that really suspends) to the next, so each   *)
(* action below is one such run.  A CocotbEvent pulse (set(); clear())     *)
(* schedules the tasks that are waiting on the event at that instant; a    *)
(* scheduled task resumes in a later step.  An unbounded queue's put never *)
(* suspends, a get suspends only while the queue is empty.                 *)
(***************************************************************************)
EXTENDS Integers, Sequences, FiniteSets, TLC

\* ------------------------------------------------------------------ bounds
NSeq == 2
MaxSend == 1
MaxRsp == 2
MaxStore == 3

\* --------------------------------------------------------------- constants
None == 0

Seqs == 1..NSeq
Items == 1..(NSeq * MaxSend)
\* a transaction id that no request item carries (a response built afresh)
FreshTid == NSeq * MaxSend + 1
Tids == Items \cup {FreshTid}

\* uvm_sequence.sequencer is None, a uvm_sequencer, or (for start) another object
TheSeqr == "uvm_sequencer"
NoSeqr == "None"
NotASeqr == "object"

\* ------------------------------------------------------------------- tasks
Snd(p) == <<"sequence", p>>
Rcv(p) == <<"get_response", p>>
SeqrTask == <<"run_phase", 0>>
Drv == <<"driver", 0>>
Senders == {Snd(p) : p \in Seqs}
Receivers == {Rcv(p) : p \in Seqs}
Tasks == Senders \cup Receivers \cup {SeqrTask, Drv}

\* ------------------------------------------------------------------ events
Ev(kind, item) == [kind |-> kind, item |-> item]
NoEvent == Ev("none", None)
start_condition(i) == Ev("start_condition", i)
finish_condition(i) == Ev("finish_condition", i)
item_ready(i) == Ev("item_ready", i)
put_event == Ev("put_event", None)
\* the private event a suspended Queue.get() waits on, per queue
seq_q_get == Ev("seq_q.get", None)
req_q_get == Ev("req_q.get", None)
rsp_q_get == Ev("rsp_q.get", None)

\* --------------------------------------------------------------- responses
NoLink == <<None, None>>
\* a response object: its transaction id, its link to a request, which object
\* it is (the serial-th response the driver created) and the call that put it
\* into the response queue
NoRsp ==
  [transaction_id |-> None, response_id |-> NoLink, serial |-> 0, via |-> "none"]

\* what a step of a task amounted to, as its caller sees it: the call returned
\* (res = "return"), suspended (res = "suspend") or raised (res = the exception)
Outcome(t, op, res, rsp) == [task |-> t, op |-> op, res |-> res, rsp |-> rsp]

VARIABLES
  sequencer,           \* [Seqs -> ...]   uvm_sequence.sequencer
  running_item,        \* [Seqs -> Items \cup {None}]  uvm_sequence.running_item
  parent_sequence_id,  \* [Items -> Seqs \cup {None}]  item.parent_sequence_id
  hooks,               \* [Seqs -> the hooks start has run for the sequence]
  seq_q,               \* uvm_sequencer.seq_q
  req_q,               \* uvm_seq_item_export.req_q
  rsp_q,               \* uvm_seq_item_export.rsp_q (ResponseQueue)
  getters,             \* rsp_q._getters: tasks suspended in rsp_q.get(), in order
  current_item,        \* uvm_seq_item_export.current_item
  waitOn,              \* [Tasks -> event the task is suspended on, or NoEvent]
  woken,               \* [Tasks -> the awaited event has fired, resume is due]
  want,                \* [Receivers -> txn_id of the get_response in progress]
  nrsp,                \* number of response objects the driver has created
  returned,            \* history: [serial -> times get_response returned it]
  held,                \* history: get_next_item returned, no item_done since
  out,                 \* outcome of the latest step (see Outcome)
  startOrder,          \* history: items in the order start_item enqueued them
  fetched,             \* history: values returned by get_next_item, in order
  selected,            \* history: items whose start_condition has pulsed
  released,            \* history: items whose item_ready has pulsed
  completed            \* history: items whose finish_condition has pulsed

vars == <<sequencer, running_item, parent_sequence_id, hooks, seq_q, req_q,
          rsp_q, getters, current_item, waitOn, woken, want, nrsp, returned,
          held, out,
          startOrder, fetched, selected, released, completed>>

seqVars == <<sequencer, running_item, parent_sequence_id, hooks>>
histVars == <<startOrder, fetched, selected, released, completed, held>>
rspVars == <<rsp_q, getters, want, nrsp, returned>>

\* ----------------------------------------------------------------- helpers
\* CocotbEvent.set(); clear(): schedule exactly the tasks waiting on ev now
Pulse(wk, ev) == [t \in Tasks |-> wk[t] \/ (waitOn[t] = ev)]

\* A task suspends on ev (NoEvent: it is back in its caller's code)
Suspend(t, ev) == [waitOn EXCEPT ![t] = ev]
Running(t) == waitOn[t] = NoEvent
Resumable(t, kind) == waitOn[t].kind = kind /\ woken[t]

\* a task's step ends: it returned, raised or suspended again
Done(wk, t) == [wk EXCEPT ![t] = FALSE]

\* uvm_sequence.sequence_id and uvm_transaction.transaction_id
sequence_id(p) == p
transaction_id(i) == i

\* the p-th sequence's items are p, p + NSeq, ...; the next one it has not sent
NextItem(p) ==
  IF running_item[p] = None THEN p ELSE running_item[p] + NSeq

OwnItems(p) == {i \in Items : (i - p) % NSeq = 0}

\* the serial numbers of response objects (0: none)
Serials == 0..(MaxRsp + MaxStore)
\* the history of returns after a get_response step with outcome o
Returned(o) ==
  IF o.res = "return"
    THEN [returned EXCEPT ![o.rsp.serial] = @ + 1]
    ELSE returned

RemoveAt(q, k) == [j \in 1..(Len(q) - 1) |-> IF j < k THEN q[j] ELSE q[j + 1]]
Last(q) == q[Len(q)]
Range(q) == {q[k] : k \in 1..Len(q)}

Init ==
  /\ sequencer = [p \in Seqs |-> NoSeqr]
  /\ running_item = [p \in Seqs |-> None]
  /\ parent_sequence_id = [i \in Items |-> None]
  /\ hooks = [p \in Seqs |-> <<>>]
  /\ seq_q = <<>>
  /\ req_q = <<>>
  /\ rsp_q = <<>>
  /\ getters = <<>>
  /\ current_item = None
  /\ waitOn = [t \in Tasks |-> IF t = SeqrTask THEN seq_q_get ELSE NoEvent]
  /\ woken = [t \in Tasks |-> t = SeqrTask]
  /\ want = [r \in Receivers |-> None]
  /\ nrsp = 0
  /\ returned = [n \in Serials |-> 0]
  /\ held = FALSE
  /\ out = Outcome(SeqrTask, "run_phase", "suspend", NoRsp)
  /\ startOrder = <<>>
  /\ fetched = <<>>
  /\ selected = {}
  /\ released = {}
  /\ completed = {}

\* ------------------------------------------------------ queues and signals
\* cocotb Queue.put_nowait on seq_q / req_q: append (the caller wakes the getter)
QPut(q, item) == Append(q, item)

\* (mutant) run_phase pushing each forwarded item onto the front of req_q
RECURSIVE ForwardLifo(_, _)
ForwardLifo(sq, rq) ==
  IF sq = <<>> THEN rq ELSE ForwardLifo(Tail(sq), <<Head(sq)>> \o rq)

\* uvm_sequencer.run_phase's loop body, repeated while seq_q.get() does not
\* suspend: each item taken from seq_q is put on req_q
RECURSIVE Forward(_, _)
Forward(sq, rq) ==
  IF sq = <<>> THEN rq ELSE Forward(Tail(sq), QPut(rq, Head(sq)))

\* (mutant) put_nowait without the put_event pulse
PutNowaitNoPulse(wk, rsp) ==
  [q |-> Append(rsp_q, rsp),
   g |-> IF getters = <<>> THEN getters ELSE Tail(getters),
   w |-> IF getters = <<>> THEN wk ELSE [wk EXCEPT ![Head(getters)] = TRUE]]

\* ResponseQueue.put_nowait: append, wake the first task suspended in get(),
\* then pulse put_event.  Yields the new queue, getters and woken.
PutNowait(wk, rsp) ==
  LET wk1 == IF getters = <<>> THEN wk ELSE [wk EXCEPT ![Head(getters)] = TRUE]
  IN  [q |-> Append(rsp_q, rsp),
       g |-> IF getters = <<>> THEN getters ELSE Tail(getters),
       w |-> Pulse(wk1, put_event)]

\* uvm_sequence_item.set_context: the response_id a response linked to req gets
set_context(req) == <<parent_sequence_id[req], transaction_id(req)>>

\* ---------------------------------------------------------------- sequence
\* uvm_sequence.start(seqr), call_pre_post left at its default (True); the
\* calls body() makes are the sequence's later steps
Start(p, seqr) ==
  /\ Running(Snd(p))
  /\ sequencer[p] = NoSeqr
  /\ running_item[p] = None
  /\ IF seqr = NotASeqr
       THEN /\ out' = Outcome(Snd(p), "start", "AssertionError", NoRsp)
            /\ UNCHANGED <<sequencer, hooks>>
       ELSE /\ sequencer' = [sequencer EXCEPT ![p] = seqr]
            /\ hooks' = [hooks EXCEPT ![p] = <<"pre_body", "body", "post_body">>]
            /\ out' = Outcome(Snd(p), "start", "return", NoRsp)
  /\ UNCHANGED <<running_item, parent_sequence_id, seq_q, req_q, current_item,
                 waitOn, woken, rspVars, histVars>>

\* (mutant) start_item stamping the item before it checks the sequencer
StartItemStampFirst(p) ==
  LET item == NextItem(p) IN
  /\ Running(Snd(p))
  /\ item \in Items
  /\ parent_sequence_id' = [parent_sequence_id EXCEPT ![item] = sequence_id(p)]
  /\ running_item' = [running_item EXCEPT ![p] = item]
  /\ IF sequencer[p] = NoSeqr
       THEN /\ out' = Outcome(Snd(p), "start_item", "UVMSequenceError", NoRsp)
            /\ UNCHANGED <<seq_q, waitOn, woken, startOrder>>
       ELSE /\ seq_q' = QPut(seq_q, item)
            /\ woken' = Pulse(woken, seq_q_get)
            /\ waitOn' = Suspend(Snd(p), start_condition(item))
            /\ startOrder' = Append(startOrder, item)
            /\ out' = Outcome(Snd(p), "start_item", "suspend", NoRsp)
  /\ UNCHANGED <<sequencer, hooks, req_q, current_item, rspVars,
                 fetched, selected, released, completed, held>>

\* uvm_sequence.start_item(item) -> uvm_sequencer.start_item(item)
StartItem(p) ==
  LET item == NextItem(p) IN
  /\ Running(Snd(p))
  /\ item \in Items
  /\ IF sequencer[p] = NoSeqr
       THEN /\ out' = Outcome(Snd(p), "start_item", "UVMSequenceError", NoRsp)
            /\ UNCHANGED <<running_item, parent_sequence_id, seq_q, waitOn,
                           woken, startOrder>>
       ELSE /\ parent_sequence_id' =
                 [parent_sequence_id EXCEPT ![item] = sequence_id(p)]
            /\ running_item' = [running_item EXCEPT ![p] = item]
            /\ seq_q' = QPut(seq_q, item)
            /\ woken' = Pulse(woken, seq_q_get)
            /\ waitOn' = Suspend(Snd(p), start_condition(item))
            /\ startOrder' = Append(startOrder, item)
            /\ out' = Outcome(Snd(p), "start_item", "suspend", NoRsp)
  /\ UNCHANGED <<sequencer, hooks, req_q, current_item, rspVars,
                 fetched, selected, released, completed, held>>

\* start_item resumes after item.start_condition.wait() and returns
StartItemReturn(p) ==
  /\ Resumable(Snd(p), "start_condition")
  /\ waitOn' = Suspend(Snd(p), NoEvent)
  /\ woken' = Done(woken, Snd(p))
  /\ out' = Outcome(Snd(p), "start_item", "return", NoRsp)
  /\ UNCHANGED <<seqVars, seq_q, req_q, current_item, rspVars, histVars>>

\* the item a sequence passes to finish_item: the one it started, else a new one
FinishArg(p) == IF running_item[p] # None THEN running_item[p] ELSE NextItem(p)

\* uvm_sequence.finish_item(item) -> uvm_sequencer.finish_item(item)
FinishItem(p) ==
  LET item == FinishArg(p) IN
  /\ Running(Snd(p))
  /\ IF sequencer[p] = NoSeqr
       THEN /\ out' = Outcome(Snd(p), "finish_item", "UVMSequenceError", NoRsp)
            /\ UNCHANGED <<waitOn, woken, released>>
       ELSE /\ woken' = Pulse(woken, item_ready(item))
            /\ released' = released \cup {item}
            /\ waitOn' = Suspend(Snd(p), finish_condition(item))
            /\ out' = Outcome(Snd(p), "finish_item", "suspend", NoRsp)
  /\ UNCHANGED <<seqVars, seq_q, req_q, current_item, rspVars,
                 startOrder, fetched, selected, completed, held>>

\* (mutant) finish_item returning without waiting for finish_condition to fire
FinishItemNoWait(p) ==
  /\ waitOn[Snd(p)].kind = "finish_condition"
  /\ waitOn' = Suspend(Snd(p), NoEvent)
  /\ woken' = Done(woken, Snd(p))
  /\ out' = Outcome(Snd(p), "finish_item", "return", NoRsp)
  /\ UNCHANGED <<seqVars, seq_q, req_q, current_item, rspVars, histVars>>

\* finish_item resumes after item.finish_condition.wait() and returns
FinishItemReturn(p) ==
  /\ Resumable(Snd(p), "finish_condition")
  /\ waitOn' = Suspend(Snd(p), NoEvent)
  /\ woken' = Done(woken, Snd(p))
  /\ out' = Outcome(Snd(p), "finish_item", "return", NoRsp)
  /\ UNCHANGED <<seqVars, seq_q, req_q, current_item, rspVars, histVars>>

\* --------------------------------------------------------------- sequencer
\* (mutant) run_phase pulsing start_condition of the items it forwards
RunPhaseSelects ==
  /\ Resumable(SeqrTask, "seq_q.get")
  /\ req_q' = Forward(seq_q, req_q)
  /\ seq_q' = <<>>
  /\ woken' = Done([t \in Tasks |->
                      \/ woken[t]
                      \/ (seq_q # <<>> /\ waitOn[t] = req_q_get)
                      \/ \E k \in 1..Len(seq_q) :
                           waitOn[t] = start_condition(seq_q[k])],
                   SeqrTask)
  /\ out' = Outcome(SeqrTask, "run_phase", "suspend", NoRsp)
  /\ UNCHANGED <<seqVars, current_item, waitOn, rspVars, histVars>>

\* uvm_sequencer.run_phase: runs from one suspension in seq_q.get() to the next
RunPhase ==
  /\ Resumable(SeqrTask, "seq_q.get")
  /\ req_q' = Forward(seq_q, req_q)
  /\ seq_q' = <<>>
  /\ woken' = Done(IF seq_q = <<>> THEN woken ELSE Pulse(woken, req_q_get),
                   SeqrTask)
  /\ out' = Outcome(SeqrTask, "run_phase", "suspend", NoRsp)
  /\ UNCHANGED <<seqVars, current_item, waitOn, rspVars, histVars>>

\* ------------------------------------------------------------------ driver
\* (mutant) item_ready as a latched flag: a wait on an item_ready that has
\* fired before returns without suspending
TakeItemLatched ==
  LET item == Head(req_q) IN
  /\ current_item' = item
  /\ req_q' = Tail(req_q)
  /\ selected' = selected \cup {item}
  /\ woken' = [Pulse(woken, start_condition(item)) EXCEPT
                 ![Drv] = item \in released]
  /\ waitOn' = Suspend(Drv, item_ready(item))
  /\ out' = Outcome(Drv, "get_next_item", "suspend", NoRsp)

\* (mutant) get_next_item waiting on item_ready before it pulses
\* start_condition: the pulse is never reached
TakeItemNoPulse ==
  LET item == Head(req_q) IN
  /\ current_item' = item
  /\ req_q' = Tail(req_q)
  /\ UNCHANGED selected
  /\ woken' = Done(woken, Drv)
  /\ waitOn' = Suspend(Drv, item_ready(item))
  /\ out' = Outcome(Drv, "get_next_item", "suspend", NoRsp)

\* get_next_item from "self.current_item = <item from req_q>" to the wait on
\* item_ready: the request queue is known to be non-empty
TakeItem ==
  LET item == Head(req_q) IN
  /\ current_item' = item
  /\ req_q' = Tail(req_q)
  /\ selected' = selected \cup {item}
  /\ woken' = Done(Pulse(woken, start_condition(item)), Drv)
  /\ waitOn' = Suspend(Drv, item_ready(item))
  /\ out' = Outcome(Drv, "get_next_item", "suspend", NoRsp)

\* (mutant) get_next_item without the check of current_item
GetNextItemNoCheck ==
  /\ Running(Drv)
  /\ IF req_q = <<>>
       THEN /\ waitOn' = Suspend(Drv, req_q_get)
            /\ out' = Outcome(Drv, "get_next_item", "suspend", NoRsp)
            /\ UNCHANGED <<current_item, req_q, selected, woken>>
       ELSE TakeItem
  /\ UNCHANGED <<seqVars, seq_q, rspVars, startOrder, fetched, released,
                 completed, held>>

\* uvm_seq_item_export.get_next_item, called by the driver
GetNextItem ==
  /\ Running(Drv)
  /\ IF current_item # None
       THEN /\ out' = Outcome(Drv, "get_next_item", "UVMSequenceError", NoRsp)
            /\ UNCHANGED <<current_item, req_q, selected, woken, waitOn>>
       ELSE IF req_q = <<>>
         THEN /\ waitOn' = Suspend(Drv, req_q_get)
              /\ out' = Outcome(Drv, "get_next_item", "suspend", NoRsp)
              /\ UNCHANGED <<current_item, req_q, selected, woken>>
         ELSE TakeItem
  /\ UNCHANGED <<seqVars, seq_q, rspVars, startOrder, fetched, released,
                 completed, held>>

\* get_next_item resumes inside req_q.get()
GetNextItemResume ==
  /\ Resumable(Drv, "req_q.get")
  /\ IF req_q = <<>>
       THEN /\ woken' = Done(woken, Drv)
            /\ out' = Outcome(Drv, "get_next_item", "suspend", NoRsp)
            /\ UNCHANGED <<current_item, req_q, selected, waitOn>>
       ELSE TakeItem
  /\ UNCHANGED <<seqVars, seq_q, rspVars, startOrder, fetched, released,
                 completed, held>>

\* (mutant) get_next_item returning without waiting for item_ready to fire
GetNextItemReturnEarly ==
  /\ waitOn[Drv].kind = "item_ready"
  /\ fetched' = Append(fetched, current_item)
  /\ held' = TRUE
  /\ waitOn' = Suspend(Drv, NoEvent)
  /\ woken' = Done(woken, Drv)
  /\ out' = Outcome(Drv, "get_next_item", "return", NoRsp)
  /\ UNCHANGED <<seqVars, seq_q, req_q, current_item, rspVars,
                 startOrder, selected, released, completed>>

\* get_next_item resumes after item_ready.wait() and returns self.current_item
GetNextItemReturn ==
  /\ Resumable(Drv, "item_ready")
  /\ fetched' = Append(fetched, current_item)
  /\ held' = TRUE
  /\ waitOn' = Suspend(Drv, NoEvent)
  /\ woken' = Done(woken, Drv)
  /\ out' = Outcome(Drv, "get_next_item", "return", NoRsp)
  /\ UNCHANGED <<seqVars, seq_q, req_q, current_item, rspVars,
                 startOrder, selected, released, completed>>

\* a response the driver passes back: it has the transaction id of a request
\* (the request itself, or a response given its id) or its own, and was
\* linked (rsp.set_context(req)) to the request get_next_item last returned
BuildRsp(tid, via) ==
  [transaction_id |-> tid,
   response_id |-> IF fetched # <<>> /\ Last(fetched) # None
                     THEN set_context(Last(fetched)) ELSE NoLink,
   serial |-> nrsp + 1,
   via |-> via]
Rsps(ids, via) == {BuildRsp(tid, via) : tid \in ids}
\* the ids the driver has seen: those of the requests it got, and a new one
KnownTids == (Range(fetched) \ {None}) \cup {FreshTid}

\* uvm_seq_item_export.put_response(item), called by the driver, which creates
\* at most max responses
PutResponseUpTo(rsp, max) ==
  LET r == PutNowait(woken, rsp) IN
  /\ Running(Drv)
  /\ nrsp < max
  /\ nrsp' = nrsp + 1
  /\ rsp_q' = r.q
  /\ getters' = r.g
  /\ woken' = r.w
  /\ out' = Outcome(Drv, "put_response", "return", rsp)
  /\ UNCHANGED <<seqVars, seq_q, req_q, current_item, waitOn, want, returned,
                 histVars>>

PutResponse(rsp) == PutResponseUpTo(rsp, MaxRsp)

\* (mutant) item_done leaving current_item set
ExportItemDoneNoClear(t, rsp) ==
  /\ IF current_item = None
       THEN /\ out' = Outcome(t, "item_done", "UVMSequenceError", rsp)
            /\ UNCHANGED <<completed, rsp_q, getters, woken, nrsp, held>>
       ELSE LET wk == Pulse(woken, finish_condition(current_item))
                r == PutNowait(wk, rsp)
            IN  /\ completed' = completed \cup {current_item}
                /\ held' = FALSE
                /\ out' = Outcome(t, "item_done", "return", rsp)
                /\ IF rsp = NoRsp
                     THEN /\ woken' = wk
                          /\ UNCHANGED <<rsp_q, getters, nrsp>>
                     ELSE /\ rsp_q' = r.q
                          /\ getters' = r.g
                          /\ woken' = r.w
                          /\ nrsp' = nrsp + 1
  /\ UNCHANGED <<seqVars, seq_q, req_q, current_item, waitOn, want, returned,
                 startOrder, fetched, selected, released>>

\* (mutant) item_done putting the response before it checks current_item
ExportItemDonePutFirst(t, rsp) ==
  /\ IF current_item = None
       THEN LET r == PutNowait(woken, rsp)
            IN  /\ out' = Outcome(t, "item_done", "UVMSequenceError", rsp)
                /\ IF rsp = NoRsp
                     THEN UNCHANGED <<rsp_q, getters, woken, nrsp>>
                     ELSE /\ rsp_q' = r.q
                          /\ getters' = r.g
                          /\ woken' = r.w
                          /\ nrsp' = nrsp + 1
                /\ UNCHANGED <<current_item, completed, held>>
       ELSE LET wk == Pulse(woken, finish_condition(current_item))
                r == PutNowait(wk, rsp)
            IN  /\ completed' = completed \cup {current_item}
                /\ current_item' = None
                /\ held' = FALSE
                /\ out' = Outcome(t, "item_done", "return", rsp)
                /\ IF rsp = NoRsp
                     THEN /\ woken' = wk
                          /\ UNCHANGED <<rsp_q, getters, nrsp>>
                     ELSE /\ rsp_q' = r.q
                          /\ getters' = r.g
                          /\ woken' = r.w
                          /\ nrsp' = nrsp + 1
  /\ UNCHANGED <<seqVars, seq_q, req_q, waitOn, want, returned,
                 startOrder, fetched, selected, released>>

\* uvm_seq_item_export.item_done(rsp) called by task t (NoRsp: rsp is None)
ExportItemDone(t, rsp) ==
  /\ IF current_item = None
       THEN /\ out' = Outcome(t, "item_done", "UVMSequenceError", rsp)
            /\ UNCHANGED <<current_item, completed, rsp_q, getters, woken,
                           nrsp, held>>
       ELSE LET wk == Pulse(woken, finish_condition(current_item))
                r == PutNowait(wk, rsp)
            IN  /\ completed' = completed \cup {current_item}
                /\ current_item' = None
                /\ held' = FALSE
                /\ out' = Outcome(t, "item_done", "return", rsp)
                /\ IF rsp = NoRsp
                     THEN /\ woken' = wk
                          /\ UNCHANGED <<rsp_q, getters, nrsp>>
                     ELSE /\ rsp_q' = r.q
                          /\ getters' = r.g
                          /\ woken' = r.w
                          /\ nrsp' = nrsp + 1
  /\ UNCHANGED <<seqVars, seq_q, req_q, waitOn, want, returned,
                 startOrder, fetched, selected, released>>

\* the driver calls item_done(rsp)
ItemDone(rsp) ==
  /\ Running(Drv)
  /\ rsp # NoRsp => nrsp < MaxRsp
  /\ ExportItemDone(Drv, rsp)

\* a value that is not a uvm_sequence_item, passed as rsp
NotAnItem ==
  [transaction_id |-> None, response_id |-> NoLink, serial |-> 0, via |-> "object"]

\* (mutant) the port's item_done handing rsp to the export unchecked
PortItemDoneNoCheck(rsp) == ItemDone(rsp)

\* uvm_seq_item_port.item_done(rsp), called by the driver
PortItemDone(rsp) ==
  IF rsp # NoRsp /\ rsp = NotAnItem
    THEN /\ Running(Drv)
         /\ out' = Outcome(Drv, "item_done", "UVMFatalError", rsp)
         /\ UNCHANGED <<seqVars, seq_q, req_q, current_item, waitOn, woken,
                        rspVars, histVars>>
    ELSE ItemDone(rsp)

\* ---------------------------------------------------------- response queue
\* positions in the queue of the responses whose transaction_id is txn_id
Matches(q, txn_id) == {k \in 1..Len(q) : q[k].transaction_id = txn_id}
Min(S) == CHOOSE k \in S : \A j \in S : k <= j

\* (mutant) get_response taking the first response whatever its id
ScanAny(r, txn_id) ==
  /\ IF rsp_q = <<>>
       THEN /\ waitOn' = Suspend(r, put_event)
            /\ want' = [want EXCEPT ![r] = txn_id]
            /\ out' = Outcome(r, "get_response", "suspend", NoRsp)
            /\ UNCHANGED rsp_q
       ELSE /\ rsp_q' = Tail(rsp_q)
            /\ out' = Outcome(r, "get_response", "return", Head(rsp_q))
            /\ waitOn' = Suspend(r, NoEvent)
            /\ want' = [want EXCEPT ![r] = None]
  /\ woken' = Done(woken, r)
  /\ returned' = Returned(out')
  /\ UNCHANGED <<getters, nrsp>>

\* (mutant) get_response returning the match without removing it
ScanKeep(r, txn_id) ==
  LET txn_list == Matches(rsp_q, txn_id) IN
  /\ IF txn_list = {}
       THEN /\ waitOn' = Suspend(r, put_event)
            /\ want' = [want EXCEPT ![r] = txn_id]
            /\ out' = Outcome(r, "get_response", "suspend", NoRsp)
       ELSE IF Cardinality(txn_list) = 1
         THEN /\ out' = Outcome(r, "get_response", "return",
                                rsp_q[Min(txn_list)])
              /\ waitOn' = Suspend(r, NoEvent)
              /\ want' = [want EXCEPT ![r] = None]
         ELSE /\ out' = Outcome(r, "get_response", "AssertionError", NoRsp)
              /\ waitOn' = Suspend(r, NoEvent)
              /\ want' = [want EXCEPT ![r] = None]
  /\ woken' = Done(woken, r)
  /\ returned' = Returned(out')
  /\ UNCHANGED <<rsp_q, getters, nrsp>>

\* (mutant) get_response removing everything up to the match
ScanDropOlder(r, txn_id) ==
  LET txn_list == Matches(rsp_q, txn_id) IN
  /\ IF txn_list = {}
       THEN /\ waitOn' = Suspend(r, put_event)
            /\ want' = [want EXCEPT ![r] = txn_id]
            /\ out' = Outcome(r, "get_response", "suspend", NoRsp)
            /\ UNCHANGED rsp_q
       ELSE IF Cardinality(txn_list) = 1
         THEN /\ rsp_q' = SubSeq(rsp_q, Min(txn_list) + 1, Len(rsp_q))
              /\ out' = Outcome(r, "get_response", "return",
                                rsp_q[Min(txn_list)])
              /\ waitOn' = Suspend(r, NoEvent)
              /\ want' = [want EXCEPT ![r] = None]
         ELSE /\ out' = Outcome(r, "get_response", "AssertionError", NoRsp)
              /\ waitOn' = Suspend(r, NoEvent)
              /\ want' = [want EXCEPT ![r] = None]
              /\ UNCHANGED rsp_q
  /\ woken' = Done(woken, r)
  /\ returned' = Returned(out')
  /\ UNCHANGED <<getters, nrsp>>

\* (mutant) get_response without the assertion: the first match is returned
ScanFirstMatch(r, txn_id) ==
  LET txn_list == Matches(rsp_q, txn_id) IN
  /\ IF txn_list = {}
       THEN /\ waitOn' = Suspend(r, put_event)
            /\ want' = [want EXCEPT ![r] = txn_id]
            /\ out' = Outcome(r, "get_response", "suspend", NoRsp)
            /\ UNCHANGED rsp_q
       ELSE /\ rsp_q' = RemoveAt(rsp_q, Min(txn_list))
            /\ out' = Outcome(r, "get_response", "return",
                              rsp_q[Min(txn_list)])
            /\ waitOn' = Suspend(r, NoEvent)
            /\ want' = [want EXCEPT ![r] = None]
  /\ woken' = Done(woken, r)
  /\ returned' = Returned(out')
  /\ UNCHANGED <<getters, nrsp>>

\* one pass of the "while True" loop of ResponseQueue.get_response(txn_id)
Scan(r, txn_id) ==
  LET txn_list == Matches(rsp_q, txn_id) IN
  /\ IF txn_list = {}
       THEN /\ waitOn' = Suspend(r, put_event)
            /\ want' = [want EXCEPT ![r] = txn_id]
            /\ out' = Outcome(r, "get_response", "suspend", NoRsp)
            /\ UNCHANGED rsp_q
       ELSE IF Cardinality(txn_list) = 1
         THEN /\ rsp_q' = RemoveAt(rsp_q, Min(txn_list))
              /\ out' = Outcome(r, "get_response", "return",
                                rsp_q[Min(txn_list)])
              /\ waitOn' = Suspend(r, NoEvent)
              /\ want' = [want EXCEPT ![r] = None]
         ELSE /\ out' = Outcome(r, "get_response", "AssertionError", NoRsp)
              /\ waitOn' = Suspend(r, NoEvent)
              /\ want' = [want EXCEPT ![r] = None]
              /\ UNCHANGED rsp_q
  /\ woken' = Done(woken, r)
  /\ returned' = Returned(out')
  /\ UNCHANGED <<getters, nrsp>>

\* (mutant) Queue.get() popping the newest entry
QueueGetLast(r) ==
  /\ IF rsp_q = <<>>
       THEN /\ getters' = Append(getters, r)
            /\ waitOn' = Suspend(r, rsp_q_get)
            /\ out' = Outcome(r, "rsp_q.get", "suspend", NoRsp)
            /\ UNCHANGED rsp_q
       ELSE /\ rsp_q' = SubSeq(rsp_q, 1, Len(rsp_q) - 1)
            /\ out' = Outcome(r, "rsp_q.get", "return", Last(rsp_q))
            /\ waitOn' = Suspend(r, NoEvent)
            /\ UNCHANGED getters
  /\ woken' = Done(woken, r)
  /\ returned' = Returned(out')
  /\ UNCHANGED <<want, nrsp>>

\* cocotb Queue.get() on the response queue: "return await self.get()"
QueueGet(r) ==
  /\ IF rsp_q = <<>>
       THEN /\ getters' = Append(getters, r)
            /\ waitOn' = Suspend(r, rsp_q_get)
            /\ out' = Outcome(r, "rsp_q.get", "suspend", NoRsp)
            /\ UNCHANGED rsp_q
       ELSE /\ rsp_q' = Tail(rsp_q)
            /\ out' = Outcome(r, "rsp_q.get", "return", Head(rsp_q))
            /\ waitOn' = Suspend(r, NoEvent)
            /\ UNCHANGED getters
  /\ woken' = Done(woken, r)
  /\ returned' = Returned(out')
  /\ UNCHANGED <<want, nrsp>>

\* (mutant) get_response without the "txn_id is None" branch: None is scanned
\* for like an id
RQGetResponseNoFifo(r, txn_id) == Scan(r, txn_id)

\* ResponseQueue.get_response(txn_id), entered by task r
RQGetResponse(r, txn_id) ==
  IF txn_id = None THEN QueueGet(r) ELSE Scan(r, txn_id)

\* uvm_seq_item_export.get_response(transaction_id) (also reached through
\* uvm_seq_item_port.get_response and uvm_sequencer.get_response)
ChanGetResponse(p, tid) ==
  /\ Running(Rcv(p))
  /\ RQGetResponse(Rcv(p), tid)
  /\ UNCHANGED <<seqVars, seq_q, req_q, current_item, histVars>>

\* uvm_sequence.get_response(transaction_id)
SeqGetResponse(p, tid) ==
  /\ Running(Rcv(p))
  /\ IF sequencer[p] = NoSeqr
       THEN /\ out' = Outcome(Rcv(p), "get_response", "UVMSequenceError", NoRsp)
            /\ UNCHANGED <<rspVars, waitOn, woken>>
       ELSE IF tid = None /\ running_item[p] = None
         THEN /\ out' = Outcome(Rcv(p), "get_response", "AttributeError", NoRsp)
              /\ UNCHANGED <<rspVars, waitOn, woken>>
         ELSE RQGetResponse(Rcv(p),
                IF tid # None THEN tid ELSE transaction_id(running_item[p]))
  /\ UNCHANGED <<seqVars, seq_q, req_q, current_item, histVars>>

\* get_response resumes after put_event.wait() and scans again
ScanResume(p) ==
  /\ Resumable(Rcv(p), "put_event")
  /\ Scan(Rcv(p), want[Rcv(p)])
  /\ UNCHANGED <<seqVars, seq_q, req_q, current_item, histVars>>

\* get_response resumes inside rsp_q.get()
QueueGetResume(p) ==
  /\ Resumable(Rcv(p), "rsp_q.get")
  /\ QueueGet(Rcv(p))
  /\ UNCHANGED <<seqVars, seq_q, req_q, current_item, histVars>>

\* -------------------------------------------------------------------- spec
\* The sequences, the sequencer's run_phase and one driver; each sequence has
\* a second task that waits for its responses.
Next ==
  \/ \E p \in Seqs, s \in {NoSeqr, TheSeqr, NotASeqr} : Start(p, s)
  \/ \E p \in Seqs : StartItem(p)
  \/ \E p \in Seqs : StartItemReturn(p)
  \/ \E p \in Seqs : FinishItem(p)
  \/ \E p \in Seqs : FinishItemReturn(p)
  \/ RunPhase
  \/ GetNextItem
  \/ GetNextItemResume
  \/ GetNextItemReturn
  \/ \E rsp \in Rsps(KnownTids, "item_done") \cup {NoRsp, NotAnItem} :
       PortItemDone(rsp)
  \/ \E rsp \in Rsps(KnownTids, "put_response") : PutResponse(rsp)
  \/ \E p \in Seqs : \E tid \in OwnItems(p) \cup {None} : SeqGetResponse(p, tid)
  \/ \E p \in Seqs : ScanResume(p)

Spec == Init /\ [][Next]_vars

\* The response store on its own: the driver inserts responses with
\* put_response and tasks retrieve them from the channel, by id or in order.
NextRsp ==
  \/ \E rsp \in Rsps(Tids, "put_response") : PutResponseUpTo(rsp, MaxStore)
  \/ \E p \in Seqs, tid \in Tids \cup {None} : ChanGetResponse(p, tid)
  \/ \E p \in Seqs : ScanResume(p)
  \/ \E p \in Seqs : QueueGetResume(p)

SpecRsp == Init /\ [][NextRsp]_vars

\* item_done called by a task other than the driver (sequence p's second task)
OtherItemDone(p) ==
  /\ Running(Rcv(p))
  /\ ExportItemDone(Rcv(p), NoRsp)

\* Spec plus a second task that calls item_done on the channel
NextAny ==
  \/ Next
  \/ \E p \in Seqs : OtherItemDone(p)

SpecAny == Init /\ [][NextAny]_vars

\* ------------------------------------------------------- the normal protocol
\* body(): start_item(req) on a new item, once start bound the sequencer and
\* the previous item (if any) went through finish_item
BodyStartItem(p) ==
  /\ sequencer[p] = TheSeqr
  /\ running_item[p] # None => running_item[p] \in released
  /\ StartItem(p)

\* body(): finish_item(req) on the item start_item returned for
BodyFinishItem(p) ==
  /\ running_item[p] # None
  /\ running_item[p] \notin released
  /\ FinishItem(p)

\* the driver's loop: get_next_item when it holds no item
DriverGetNextItem ==
  /\ ~held
  /\ GetNextItem

\* the driver's loop: item_done(rsp) or item_done() for the item it holds
DriverItemDone(rsp) ==
  /\ held
  /\ PortItemDone(rsp)

NextNormal ==
  \/ \E p \in Seqs : Start(p, TheSeqr)
  \/ \E p \in Seqs : BodyStartItem(p)
  \/ \E p \in Seqs : StartItemReturn(p)
  \/ \E p \in Seqs : BodyFinishItem(p)
  \/ \E p \in Seqs : FinishItemReturn(p)
  \/ RunPhase
  \/ DriverGetNextItem
  \/ GetNextItemResume
  \/ GetNextItemReturn
  \/ \E rsp \in Rsps(KnownTids, "item_done") \cup {NoRsp} : DriverItemDone(rsp)

\* the scheduler runs every task that is ready to run
FairNormal ==
  /\ \A p \in Seqs : WF_vars(Start(p, TheSeqr))
  /\ \A p \in Seqs : WF_vars(BodyStartItem(p))
  /\ \A p \in Seqs : WF_vars(StartItemReturn(p))
  /\ \A p \in Seqs : WF_vars(BodyFinishItem(p))
  /\ \A p \in Seqs : WF_vars(FinishItemReturn(p))
  /\ WF_vars(RunPhase)
  /\ WF_vars(DriverGetNextItem)
  /\ WF_vars(GetNextItemResume)
  /\ WF_vars(GetNextItemReturn)
  /\ WF_vars(\E rsp \in Rsps(KnownTids, "item_done") \cup {NoRsp} :
               DriverItemDone(rsp))

SpecNormal == Init /\ [][NextNormal]_vars /\ FairNormal

\* --------------------------------------------------- finish_item called early
\* uvm_sequence.finish_item(self.running_item) called by the sequence's second
\* task, whatever the body's task is doing (it may still be in start_item)
OtherFinishItem(p) ==
  LET item == running_item[p] IN
  /\ Running(Rcv(p))
  /\ item # None
  /\ IF sequencer[p] = NoSeqr
       THEN /\ out' = Outcome(Rcv(p), "finish_item", "UVMSequenceError", NoRsp)
            /\ UNCHANGED <<waitOn, woken, released>>
       ELSE /\ woken' = Pulse(woken, item_ready(item))
            /\ released' = released \cup {item}
            /\ waitOn' = Suspend(Rcv(p), finish_condition(item))
            /\ out' = Outcome(Rcv(p), "finish_item", "suspend", NoRsp)
  /\ UNCHANGED <<seqVars, seq_q, req_q, current_item, rspVars,
                 startOrder, fetched, selected, completed, held>>

\* that finish_item resumes after item.finish_condition.wait() and returns
OtherFinishItemReturn(p) ==
  /\ Resumable(Rcv(p), "finish_condition")
  /\ waitOn' = Suspend(Rcv(p), NoEvent)
  /\ woken' = Done(woken, Rcv(p))
  /\ out' = Outcome(Rcv(p), "finish_item", "return", NoRsp)
  /\ UNCHANGED <<seqVars, seq_q, req_q, current_item, rspVars, histVars>>

\* The sequences started on the sequencer, the sequencer's run_phase and the
\* driver, with finish_item also called from a second task of each sequence;
\* responses come from item_done(rsp) and are asked for by id
NextEarly ==
  \/ \E p \in Seqs : Start(p, TheSeqr)
  \/ \E p \in Seqs : StartItem(p)
  \/ \E p \in Seqs : StartItemReturn(p)
  \/ \E p \in Seqs : FinishItem(p)
  \/ \E p \in Seqs : FinishItemReturn(p)
  \/ RunPhase
  \/ GetNextItem
  \/ GetNextItemResume
  \/ GetNextItemReturn
  \/ \E rsp \in Rsps(KnownTids, "item_done") \cup {NoRsp} : PortItemDone(rsp)
  \/ \E p \in Seqs : \E tid \in OwnItems(p) : SeqGetResponse(p, tid)
  \/ \E p \in Seqs : ScanResume(p)
  \/ \E p \in Seqs : OtherFinishItem(p)
  \/ \E p \in Seqs : OtherFinishItemReturn(p)

SpecEarly == Init /\ [][NextEarly]_vars

\* ------------------------------------------------------------- id-waiters
\* put_response of a response whose id no stored response carries
PutDistinct(rsp) ==
  /\ Matches(rsp_q, rsp.transaction_id) = {}
  /\ PutResponseUpTo(rsp, MaxStore)

\* Each sequence's task asks the channel for responses by the ids of its own
\* items (so the waiters' ids are pairwise distinct) while responses with
\* these and other ids are inserted in any order; a woken task is run.
NextWaiters ==
  \/ \E rsp \in Rsps(Tids, "put_response") : PutDistinct(rsp)
  \/ \E p \in Seqs : \E tid \in OwnItems(p) : ChanGetResponse(p, tid)
  \/ \E p \in Seqs : ScanResume(p)

SpecWaiters ==
  /\ Init /\ [][NextWaiters]_vars
  /\ \A p \in Seqs : WF_vars(ScanResume(p))

\* ================================================================== claims
\* every variable but out
stateVars == <<sequencer, running_item, parent_sequence_id, hooks, seq_q,
               req_q, rsp_q, getters, current_item, waitOn, woken, want, nrsp,
               returned, held,
               startOrder, fetched, selected, released, completed>>

\* C1: the values get_next_item returns, in order, are the items in the order
\* start_item was invoked on them, whichever sequence invoked it
C1_FetchOrder ==
  \A k \in 1..Len(fetched) : k <= Len(startOrder) /\ fetched[k] = startOrder[k]
\* two items fetched, the higher-numbered sequence's item first
C1_Witness == Len(fetched) >= 2 /\ fetched[1] > fetched[2]

\* C2: a get_next_item call made while the previous get_next_item has returned
\* and no item_done was called since raises UVMSequenceError and leaves
\* current_item and req_q as they were
C2_SecondFetchFails ==
  [][(GetNextItem /\ held) =>
       /\ out'.res = "UVMSequenceError"
       /\ current_item' = current_item
       /\ req_q' = req_q]_vars
\* the second call failed although a request was waiting in req_q
C2_Witness ==
  /\ held
  /\ req_q # <<>>
  /\ out = Outcome(Drv, "get_next_item", "UVMSequenceError", NoRsp)

\* C3 (as claimed): an item_done call made while no get_next_item has returned
\* an item that is not yet marked done raises UVMSequenceError, also while a
\* get_next_item call is suspended on item_ready
C3_DoneWithoutFetchFails ==
  [][(/\ ~held
      /\ \/ \E rsp \in Rsps(Tids, "item_done") \cup {NoRsp} : ItemDone(rsp)
         \/ \E p \in Seqs : OtherItemDone(p))
       => out'.res = "UVMSequenceError"]_vars

\* C4 (as claimed): once item_done has put a newly built response (it has its
\* own transaction id) linked by set_context to request X of sequence P into
\* the store, a get_response(X) of P finds it: P's get_response(X) is not left
\* suspended on put_event with that response stored
C4_RoundTrip ==
  \A p \in Seqs :
    (waitOn[Rcv(p)] = put_event /\ ~woken[Rcv(p)]) =>
      ~\E k \in 1..Len(rsp_q) :
          /\ rsp_q[k].via = "item_done"
          /\ rsp_q[k].transaction_id = FreshTid
          /\ rsp_q[k].response_id = <<sequence_id(p), want[Rcv(p)]>>

\* the id a get_response step of sequence p's task is looking for: the running
\* item's id when the call is made, the remembered id when it resumes
C5_Id(p) ==
  IF Running(Rcv(p)) THEN transaction_id(running_item[p]) ELSE want[Rcv(p)]
C5_Step(p) ==
  \/ Running(Rcv(p)) /\ sequencer[p] # NoSeqr /\ running_item[p] # None
       /\ SeqGetResponse(p, None)
  \/ ScanResume(p)

\* C5 (as claimed): get_response() called before item_done for the sequence's
\* latest item suspends, and when it returns the response was supplied by an
\* item_done call and carries that item's id
C5_Original ==
  [][\A p \in Seqs :
       /\ (/\ Running(Rcv(p)) /\ C5_Step(p)
           /\ running_item[p] \notin completed) => out'.res = "suspend"
       /\ (C5_Step(p) /\ out'.res = "return") =>
            /\ out'.rsp.via = "item_done"
            /\ out'.rsp.transaction_id = C5_Id(p)]_vars

\* C5 (amended): get_response() called while the store holds no response with
\* the latest item's id suspends; when it returns, the response was in the
\* store (put there by item_done or by put_response) and carries that id
C5_Amended ==
  [][\A p \in Seqs :
       /\ (/\ Running(Rcv(p)) /\ C5_Step(p)
           /\ \A k \in 1..Len(rsp_q) :
                rsp_q[k].transaction_id # C5_Id(p)) => out'.res = "suspend"
       /\ (C5_Step(p) /\ out'.res = "return") =>
            /\ out'.rsp \in Range(rsp_q)
            /\ out'.rsp.via \in {"item_done", "put_response"}
            /\ out'.rsp.transaction_id = C5_Id(p)]_vars
\* a get_response() is suspended for the id of an item the driver holds and
\* has not marked done
C5_Witness ==
  \E p \in Seqs :
    /\ waitOn[Rcv(p)] = put_event /\ ~woken[Rcv(p)]
    /\ running_item[p] # None
    /\ want[Rcv(p)] = transaction_id(running_item[p])
    /\ held /\ current_item = running_item[p]
    /\ rsp_q = <<>>

\* C6: on a sequence whose sequencer is None, start_item, finish_item and
\* get_response raise UVMSequenceError at once and change nothing
C6_NotBound ==
  [][\A p \in Seqs :
       (/\ sequencer[p] = NoSeqr
        /\ \/ StartItem(p)
           \/ FinishItem(p)
           \/ \E tid \in Tids \cup {None} : SeqGetResponse(p, tid))
         => (out'.res = "UVMSequenceError" /\ UNCHANGED stateVars)]_vars
\* start_item failed on a sequence that start never bound
C6_Witness ==
  \E p \in Seqs :
    /\ sequencer[p] = NoSeqr
    /\ out = Outcome(Snd(p), "start_item", "UVMSequenceError", NoRsp)

\* two stored responses carry transaction id tid
C7_Dup(tid) ==
  \E j, k \in 1..Len(rsp_q) :
    j # k /\ rsp_q[j].transaction_id = tid /\ rsp_q[k].transaction_id = tid

\* C7: a get_response for an id that two stored responses carry raises the
\* AssertionError and removes nothing
C7_Duplicate ==
  [][\A p \in Seqs, tid \in Tids :
       (/\ C7_Dup(tid)
        /\ \/ ChanGetResponse(p, tid)
           \/ want[Rcv(p)] = tid /\ ScanResume(p))
         => (out'.res = "AssertionError" /\ rsp_q' = rsp_q)]_vars
\* the assertion failed with both responses still stored
C7_Witness ==
  /\ out.op = "get_response" /\ out.res = "AssertionError"
  /\ \E tid \in Tids : C7_Dup(tid)

\* C8: get_response(None) on a non-empty store returns the response that was
\* inserted first among those present and removes exactly it
C8_Fifo ==
  [][\A p \in Seqs :
       ((ChanGetResponse(p, None) \/ QueueGetResume(p)) /\ rsp_q # <<>>) =>
         /\ out'.res = "return"
         /\ out'.rsp \in Range(rsp_q)
         /\ \A k \in 1..Len(rsp_q) : out'.rsp.serial <= rsp_q[k].serial
         /\ rsp_q' = SelectSeq(rsp_q, LAMBDA x : x # out'.rsp)]_vars
\* the oldest response was returned although a younger one has a smaller id
C8_Witness ==
  /\ out.op = "rsp_q.get" /\ out.res = "return"
  /\ rsp_q # <<>>
  /\ out.rsp.transaction_id > rsp_q[1].transaction_id

\* C9: when start_item returns, the item's start_condition has pulsed (the
\* driver took it), its item_ready has not pulsed and get_next_item has not
\* returned it
C9_StartReturn ==
  \A p \in Seqs :
    out = Outcome(Snd(p), "start_item", "return", NoRsp) =>
      /\ running_item[p] \in selected
      /\ running_item[p] \notin released
      /\ running_item[p] \notin Range(fetched)
\* start_item has just returned
C9_Witness ==
  \E p \in Seqs :
    /\ out = Outcome(Snd(p), "start_item", "return", NoRsp)
    /\ current_item = running_item[p]

\* C10: every item get_next_item has returned had its item_ready pulsed by a
\* finish_item call before
C10_FetchAfterRelease ==
  \A k \in 1..Len(fetched) : fetched[k] \in released
\* get_next_item has just returned the current item
C10_Witness ==
  /\ out = Outcome(Drv, "get_next_item", "return", NoRsp)
  /\ fetched # <<>> /\ Last(fetched) = current_item

\* C11: finish_item(item) is resumed, and returns, only after item_done was
\* called while that item was the current item (its finish_condition pulsed)
C11_FinishAfterDone ==
  /\ \A p \in Seqs :
       Resumable(Snd(p), "finish_condition") =>
         waitOn[Snd(p)].item \in completed
  /\ \A p \in Seqs :
       out = Outcome(Snd(p), "finish_item", "return", NoRsp) =>
         running_item[p] \in completed
\* finish_item has returned while the driver holds another sequence's item
C11_Witness ==
  \E p \in Seqs :
    /\ out = Outcome(Snd(p), "finish_item", "return", NoRsp)
    /\ current_item # None /\ current_item # running_item[p]

\* C12: item_done called through the port with a response that is not a
\* sequence item raises UVMFatalError and changes nothing: current_item stays,
\* no finish_condition pulse, rsp_q unchanged
C12_TypeMismatch ==
  [][PortItemDone(NotAnItem) =>
       (out'.res = "UVMFatalError" /\ UNCHANGED stateVars)]_vars
\* the call failed while the driver held an item whose sequence is waiting in
\* finish_item
C12_Witness ==
  /\ out = Outcome(Drv, "item_done", "UVMFatalError", NotAnItem)
  /\ held /\ current_item # None
  /\ \E p \in Seqs : /\ waitOn[Snd(p)] = finish_condition(current_item)
                      /\ ~woken[Snd(p)]

\* C13 (as claimed): start with seqr None, or with an object that is not a
\* uvm_sequencer, raises AssertionError and runs none of pre_body, body and
\* post_body
C13_StartFails ==
  [][\A p \in Seqs :
       (Start(p, NoSeqr) \/ Start(p, NotASeqr)) =>
         (out'.res = "AssertionError" /\ hooks'[p] = <<>>)]_vars

\* C14: in the normal protocol under fair scheduling every sequence ends up
\* returned from finish_item for every one of its items
C14_NoDeadlock ==
  \A p \in Seqs :
    <>[](Running(Snd(p)) /\ OwnItems(p) \subseteq (released \cap completed))
\* every sequence has sent all its items and is back from finish_item
C14_Witness ==
  /\ \A p \in Seqs : Running(Snd(p)) /\ OwnItems(p) \subseteq completed
  /\ Len(fetched) = NSeq * MaxSend
  /\ \E p \in Seqs : out = Outcome(Snd(p), "finish_item", "return", NoRsp)

\* C15 (as claimed): whatever put_response and item_done(rsp) calls were made,
\* no two stored responses carry the same transaction id
C15_AtMostOne ==
  \A j, k \in 1..Len(rsp_q) :
    j # k =>
      rsp_q[j].transaction_id # rsp_q[k].transaction_id

\* C16: with one driver, current_item is set exactly from the step in which
\* get_next_item takes an item from req_q until item_done; it is never
\* replaced by another item while set; and of the items whose start_condition
\* has pulsed at most one (the current one) has not had its finish_condition
\* pulsed
C16_OneInFlight ==
  /\ [](/\ (current_item = None) <=> (selected = completed)
        /\ current_item # None => (selected \ completed) = {current_item})
  /\ [][/\ current_item # None => current_item' \in {current_item, None}
        /\ (current_item = None /\ current_item' # None) =>
             (/\ out'.op = "get_next_item"
              /\ req_q # <<>> /\ current_item' = Head(req_q)
              /\ req_q' = Tail(req_q))
        /\ (req_q # <<>> /\ req_q' = Tail(req_q)) =>
             (current_item = None /\ current_item' = Head(req_q))
        /\ (current_item # None /\ current_item' = None) =>
             (out'.op = "item_done" /\ out'.res = "return")]_vars
\* a second item is in flight after the first one was completed, and a third
\* call of get_next_item was refused
C16_Witness ==
  /\ current_item # None /\ completed # {}
  /\ selected = completed \cup {current_item}
  /\ out = Outcome(Drv, "get_next_item", "UVMSequenceError", NoRsp)

\* how often x occurs in the sequence q
C17_Count(q, x) == Cardinality({k \in 1..Len(q) : q[k] = x})
\* the item is in the current slot and get_next_item has not returned it yet
C17_InSlot(i) == IF current_item = i /\ C17_Count(fetched, i) = 0 THEN 1 ELSE 0

\* C17 (as claimed): an item passed to start_item is at every moment in
\* exactly one place - seq_q, req_q, the current slot (taken, not yet
\* returned) or returned by get_next_item, once - an item never passed to
\* start_item is in none of them, and get_next_item returns nothing else
C17_ExactlyOnce ==
  /\ \A i \in Items :
       C17_Count(seq_q, i) + C17_Count(req_q, i) + C17_InSlot(i)
         + C17_Count(fetched, i) = C17_Count(startOrder, i)
  /\ \A k \in 1..Len(fetched) : fetched[k] \in Items

\* the stored responses that carry transaction id tid
C18_Present(tid) == {k \in 1..Len(rsp_q) : rsp_q[k].transaction_id = tid}
\* the step returned a stored response with id tid and removed only it, the
\* others keeping their order
C18_Plucked(tid) ==
  /\ out'.res = "return"
  /\ out'.rsp \in Range(rsp_q)
  /\ out'.rsp.transaction_id = tid
  /\ rsp_q' = SelectSeq(rsp_q, LAMBDA x : x # out'.rsp)
  /\ Len(rsp_q') = Len(rsp_q) - 1

C19_Waiting(p, tid) == waitOn[Rcv(p)] = put_event /\ want[Rcv(p)] = tid

\* C19: with tasks suspended in get_response on pairwise-distinct ids, every
\* insert wakes every one of them, none stays suspended (not woken) while a
\* response with its id is stored, a waiter returns only the response with its
\* id, and once that response is stored the waiter eventually returns it
C19_Waiters ==
  /\ [](\A p \in Seqs :
          (waitOn[Rcv(p)] = put_event /\ ~woken[Rcv(p)]) =>
            \A k \in 1..Len(rsp_q) :
              rsp_q[k].transaction_id # want[Rcv(p)])
  /\ [][Len(rsp_q') > Len(rsp_q) =>
          \A p \in Seqs : waitOn[Rcv(p)] = put_event => woken'[Rcv(p)]]_vars
  /\ [][\A p \in Seqs :
          (ScanResume(p) /\ out'.res = "return") =>
            /\ out'.rsp \in Range(rsp_q)
            /\ out'.rsp.transaction_id = want[Rcv(p)]]_vars
  /\ \A p \in Seqs : \A tid \in OwnItems(p) :
       (/\ C19_Waiting(p, tid)
        /\ \E k \in 1..Len(rsp_q) : rsp_q[k].transaction_id = tid)
         ~> (/\ out.task = Rcv(p) /\ out.res = "return"
             /\ out.rsp.transaction_id = tid)
\* all the waiters, on distinct ids, were woken by the insert of one response
C19_Witness ==
  /\ \A p \in Seqs : waitOn[Rcv(p)] = put_event /\ woken[Rcv(p)]
  /\ \A p, q \in Seqs : p # q => want[Rcv(p)] # want[Rcv(q)]
  /\ Len(rsp_q) = 1 /\ out.op = "put_response"
  /\ \E p \in Seqs : want[Rcv(p)] = rsp_q[1].transaction_id

\* the item signals and put_event
C20_Signals ==
  {start_condition(i) : i \in Items} \cup {finish_condition(i) : i \in Items}
    \cup {item_ready(i) : i \in Items} \cup {put_event}
\* the step pulses the signal ev
C20_Pulsed(ev) ==
  CASE ev.kind = "start_condition" ->
         current_item # ev.item /\ current_item' = ev.item
    [] ev.kind = "item_ready" ->
         out'.op = "finish_item" /\ out'.res = "suspend"
           /\ waitOn'[out'.task] = finish_condition(ev.item)
    [] ev.kind = "finish_condition" ->
         out'.op = "item_done" /\ out'.res = "return"
           /\ current_item = ev.item
    [] ev.kind = "put_event" -> Len(rsp_q') > Len(rsp_q)
    [] OTHER -> FALSE

\* C20: a task is woken from a wait on an item signal or on put_event only by
\* a pulse made while it is waiting; a task that starts to wait is suspended
\* whatever pulses came before; so a get_next_item that takes an item whose
\* item_ready has already pulsed suspends, without an error, until a
\* finish_item pulses item_ready again
C20_EdgeTriggered ==
  /\ [][\A t \in Tasks :
          (waitOn'[t] \in C20_Signals /\ waitOn'[t] # waitOn[t]) =>
            ~woken'[t]]_vars
  /\ [][\A t \in Tasks :
          (waitOn[t] \in C20_Signals /\ ~woken[t] /\ woken'[t]) =>
            (waitOn'[t] = waitOn[t] /\ C20_Pulsed(waitOn[t]))]_vars
  /\ [][\A t \in Tasks : \A ev \in C20_Signals :
          (C20_Pulsed(ev) /\ waitOn[t] = ev) => woken'[t]]_vars
  /\ [][(req_q # <<>> /\ req_q' = Tail(req_q)
           /\ Head(req_q) \in released) =>
          /\ out' = Outcome(Drv, "get_next_item", "suspend", NoRsp)
          /\ waitOn'[Drv] = item_ready(Head(req_q))
          /\ ~woken'[Drv]]_vars
\* the driver is suspended on the item_ready of an item whose item_ready has
\* pulsed before, while the body's task is back from start_item
C20_Witness ==
  /\ current_item # None /\ current_item \in released
  /\ waitOn[Drv] = item_ready(current_item) /\ ~woken[Drv]
  /\ \E p \in Seqs :
       /\ running_item[p] = current_item
       /\ Running(Snd(p))
       /\ waitOn[Rcv(p)] = finish_condition(current_item)

\* C21: an item_done(rsp) call made while current_item is None raises
\* UVMSequenceError and changes nothing: rsp is not put into rsp_q, no task is
\* woken (no put_event and no finish_condition pulse), every field is as before
C21_FailedDoneFrame ==
  [][\A rsp \in Rsps(Tids, "item_done") \cup {NoRsp} :
       (current_item = None /\ ItemDone(rsp)) =>
         (out'.res = "UVMSequenceError" /\ UNCHANGED stateVars)]_vars
\* item_done(rsp) failed while a get_response for the id of rsp is suspended
\* and a sequence is still waiting in finish_item; rsp is not in rsp_q
C21_Witness ==
  /\ out.task = Drv /\ out.op = "item_done" /\ out.res = "UVMSequenceError"
  /\ out.rsp.via = "item_done"
  /\ current_item = None
  /\ out.rsp \notin Range(rsp_q)
  /\ \E p \in Seqs : /\ waitOn[Rcv(p)] = put_event /\ ~woken[Rcv(p)]
                      /\ want[Rcv(p)] = out.rsp.transaction_id
  /\ \E p \in Seqs : /\ waitOn[Snd(p)].kind = "finish_condition"
                      /\ ~woken[Snd(p)]

\* C22: every response put into rsp_q is returned by at most one
\* get_response call and is no longer stored once returned; the stored
\* responses stay distinct objects; a woken waiter (in rsp_q.get() or in the
\* scan for an id) that finds its response gone waits again, or fails,
\* leaving rsp_q as it is
C22_AtMostOnce ==
  /\ [](\A n \in Serials : returned[n] <= 1)
  /\ [](\A k \in 1..Len(rsp_q) : returned[rsp_q[k].serial] = 0)
  /\ [](\A j, k \in 1..Len(rsp_q) : j # k => rsp_q[j].serial # rsp_q[k].serial)
  /\ [][\A p \in Seqs :
          (QueueGetResume(p) /\ rsp_q = <<>>) =>
            /\ out'.res = "suspend" /\ rsp_q' = rsp_q
            /\ waitOn'[Rcv(p)] = rsp_q_get /\ ~woken'[Rcv(p)]]_vars
  /\ [][\A p \in Seqs :
          (ScanResume(p) /\ \A k \in 1..Len(rsp_q) :
                              rsp_q[k].transaction_id # want[Rcv(p)]) =>
            /\ out'.res = "suspend" /\ rsp_q' = rsp_q
            /\ waitOn'[Rcv(p)] = put_event /\ ~woken'[Rcv(p)]]_vars
  /\ [][\A p \in Seqs :
          ((ScanResume(p) \/ QueueGetResume(p)) /\ out'.res # "return") =>
            rsp_q' = rsp_q]_vars
\* one insert woke a task waiting in rsp_q.get() and a task waiting for the
\* inserted id; the latter has obtained the response, the former is still to
\* resume and will find rsp_q empty
C22_Witness ==
  /\ nrsp = 1 /\ rsp_q = <<>> /\ returned[1] = 1
  /\ out.op = "get_response" /\ out.res = "return" /\ out.rsp.serial = 1
  /\ \E p \in Seqs :
       /\ out.task # Rcv(p)
       /\ waitOn[Rcv(p)] = rsp_q_get /\ woken[Rcv(p)]

====
